---- MODULE Spec2Model ----
(***************************************************************************)
(* Model of the real-time audio playback scheduler (AudioStreamer) and of  *)
(* the connection hook (useLiveApi over GenAILiveClient) of simili-v3.     *)
(*                                                                         *)
(* Time is counted in sample periods of the 24 kHz output clock, so every  *)
(* duration of the source (0.1 s, 1.0 s, 50 ms, a buffer of n samples) is  *)
(* an integer.  The output clock (AudioContext.currentTime) and the timer  *)
(* clock of the event loop are one variable, now.                          *)
(***************************************************************************)
EXTENDS Integers, Sequences, FiniteSets, Bags, TLC

VARIABLES
  now,                 \* context.currentTime
  audioQueue,          \* AudioStreamer.audioQueue
  isPlaying,           \* AudioStreamer.isPlaying
  isStreamComplete,    \* AudioStreamer.isStreamComplete
  isInterrupted,       \* AudioStreamer.isInterrupted
  isScheduling,        \* AudioStreamer.isScheduling
  checkInterval,       \* AudioStreamer.checkInterval: NoTimer or the poll's due time
  scheduledTime,       \* AudioStreamer.scheduledTime
  gainNode,            \* AudioStreamer.gainNode: index into nodes
  nodes,               \* the gain nodes created so far: [connected, gain]
  units,               \* the AudioBufferSourceNodes started so far
  endOfQueueAudioSource, \* AudioStreamer.endOfQueueAudioSource: index into units, or 0
  timers,              \* pending setTimeout(() => scheduleNextBuffer()): bag of due times
  resets,              \* pending setTimeout of stop()'s node reset: bag of due times
  pushes,              \* history: number of addPCM16 calls
  oddFrames,           \* history: the addPCM16 calls whose chunk had an odd byte length
  lastChunk,           \* history: the byte length of the chunk of the latest addPCM16 call
  stops,               \* history: number of stop() calls
  heardStale,          \* history: a unit pushed before the latest stop() was audible after it
  last,                \* history: the operation that ran last
  clients,             \* the GenAILiveClient objects created so far: [status, session, token]
  sessions,            \* the sessions live.connect() was asked for: [owner, state]
  globalClient,        \* module variable globalClient: index into clients, or 0
  globalClientPromise, \* module variable globalClientPromise: "null", "pending", "resolved"
  mountWaiting,        \* the mount effect awaits getOrCreateClient()
  client,              \* hook state client: index into clients, or 0
  capturedClient,      \* the client captured by the connect that attemptReconnect calls
  isConnectingRef,     \* isConnectingRef.current
  isManualDisconnectRef, \* isManualDisconnectRef.current
  reconnectAttemptsRef,  \* reconnectAttemptsRef.current
  reconnectTimeoutRef,   \* reconnectTimeoutRef.current: a timer id, or 0
  reconnectTimers,     \* pending reconnect setTimeouts: [id, delay, client]
  connected,           \* hook state connected
  connectionStatus,    \* hook state connectionStatus
  connPc,              \* where the running connect() waits: "idle", "fetch", "open"
  activeClient,        \* connect()'s local activeClient while it waits, or 0
  connSess,            \* the session the running connect() waits for, or 0
  connFromTimer,       \* the running connect() was called by a reconnect timer
  connCaptured,        \* the client captured by that timer's attemptReconnect
  fetches,             \* history: number of token fetches started
  timersCreated,       \* history: number of reconnect timers set
  connectCalls,        \* history: number of connect() calls from the UI
  disconnects,         \* history: number of disconnect() calls
  callsInFlight,       \* history: connect() calls since the running connect() began
  createdInFlight,     \* history: sessions created since the running connect() began
  failedAttempts,      \* history: reconnect attempts that failed in a row
  attemptsInRow,       \* history: reconnect attempts set up since the last success
  userDisconnected,    \* history: disconnect() was the user's last call
  timerAtDisconnect,   \* history: a reconnect timer was pending at that disconnect()
  autoAfterDisconnect, \* history: a timer's connect() ran on after that disconnect()
  lastEvent,           \* history: the channel event handled last: [op, session, reconnect]
  disconnectedMidConnect, \* history: that disconnect() came while connect() was waiting
  wallClock,           \* Date.now(), in ms since the hook was mounted
  lastHeartbeatRef,    \* lastHeartbeatRef.current
  lastInbound,         \* history: Date.now() at the last message of the server
  inbounds,            \* history: number of messages of the server
  lastMsg,             \* history: the message of the server handled last: [session, msg,
                       \* pushes], with the number of addPCM16() calls before it
  lastSend,            \* history: the send call made last: [kind, session, entries, dropped, status]
  contextState,        \* audioStreamerRef.current.context.state: "running" or "suspended"
  resuming,            \* the onAudio handlers awaiting context.resume(): [bytes, epoch],
                       \* with the number of stop() calls before the event
  lastPush,            \* history: the chunk onAudio handed to addPCM16 in this step:
                       \* [bytes, epoch]
  starting,            \* AudioRecorder.starting: 0 (null) or the start() whose promise it holds
  recording,           \* AudioRecorder.recording
  stream,              \* AudioRecorder.stream: 0 (undefined) or the granted MediaStream,
                       \* named by the executor it was granted to
  source,              \* AudioRecorder.source is set
  recordingWorklet,    \* AudioRecorder.recordingWorklet and vuWorklet are set
  executors,           \* the promise executors of start(), each at its await or settled
  waiters,             \* per executor: the start() calls awaiting its promise
  chainedStops,        \* per executor: the handleStop callbacks chained on its promise
  deviceRequests,      \* getUserMedia() requests not yet answered
  liveTracks,          \* the granted streams whose tracks have not been stopped
  recStarts,           \* history: number of start() calls
  recStops,            \* history: number of stop() calls
  lastCall,            \* history: the recorder method called last: "none", "start", "stop"
  hwRate,              \* the worklet global sampleRate, or 0 before the worklet is constructed
  resampleBuffer,      \* AudioProcessingWorklet.resampleBuffer: the captured samples, by number
  buffer,              \* AudioProcessingWorklet.buffer[0..bufferWriteIndex-1]: for each output
                       \* sample the captured samples averaged into it: [first, count]
  bufferWriteIndex,    \* AudioProcessingWorklet.bufferWriteIndex
  wkPc,                \* where process() is: "idle" between calls, "loop" in processChunk's while
  capturedCount,       \* history: number of samples handed to process() so far
  processCalls,        \* history: number of process() calls
  framesSent,          \* history: number of chunk messages posted
  covered,             \* history: the last captured sample contained in a posted chunk
  lastFrame,           \* history: the chunk posted in this step: [samples, after], with the
                       \* value of covered before it
  stopRequested,       \* history, per executor: stop() was called while it was running
  lastSettle           \* history: the promise settled last: [id, outcome, joined,
                       \* joinedOutcome, stopRequested]

audioVars == <<now, audioQueue, isPlaying, isStreamComplete, isInterrupted,
               isScheduling, checkInterval, scheduledTime, gainNode, nodes,
               units, endOfQueueAudioSource, timers, resets, pushes, oddFrames,
               lastChunk, stops,
               heardStale, last>>

connVars == <<clients, sessions, globalClient, globalClientPromise, mountWaiting,
              client, capturedClient, isConnectingRef, isManualDisconnectRef,
              reconnectAttemptsRef, reconnectTimeoutRef, reconnectTimers, connected,
              connectionStatus, connPc, activeClient, connSess, connFromTimer,
              connCaptured, fetches, timersCreated, connectCalls, disconnects,
              callsInFlight, createdInFlight, failedAttempts,
              attemptsInRow, userDisconnected, timerAtDisconnect,
              autoAfterDisconnect, lastEvent, disconnectedMidConnect, wallClock,
              lastHeartbeatRef, lastInbound, inbounds, lastMsg, lastSend,
              contextState, resuming, lastPush>>

recVars == <<starting, recording, stream, source, recordingWorklet, executors,
             waiters, chainedStops, deviceRequests, liveTracks, recStarts, recStops,
             stopRequested, lastSettle, lastCall>>

wkVars == <<hwRate, resampleBuffer, buffer, bufferWriteIndex, wkPc, capturedCount,
            processCalls, framesSent, covered, lastFrame>>

vars == <<audioVars, connVars, recVars, wkVars>>

----------------------------------------------------------------------------
(* Bounds of the model *)

MaxPushes == 3
MaxStops == 1
MaxTimeSteps == 6
MaxSessions == 3
MaxFetches == 2
MaxConnectCalls == 3
MaxDisconnects == 2
MaxInbound == 2
MaxHealthChecks == 6
MaxStarts == 3
MaxRecorderStops == 2
MaxProcessCalls == 50
MaxFrames == 2

----------------------------------------------------------------------------
(* Constants of AudioStreamer *)

SampleRate == 24000
BufferSize == 7680
InitialBufferTime == SampleRate \div 10      \* 0.1 s
SCHEDULE_AHEAD_TIME == 1 * SampleRate        \* 1.0 s
maxDrift == 2 * SampleRate                   \* 2.0 s
PollInterval == SampleRate \div 10           \* setInterval(..., 100)
RescheduleLead == SampleRate \div 20         \* nextCheckTime - 50
ResetDelay == SampleRate \div 20             \* setTimeout(..., 50) in stop()

NoTimer == -1

\* The model's time step (200 ms) and its horizon.
Step == SampleRate \div 5
MaxTime == MaxTimeSteps * Step

\* Byte lengths of the PCM16 chunks the server sends: one buffer (320 ms),
\* one buffer and a remainder (400 ms), six buffers (1.92 s), and one
\* buffer followed by a single stray byte.
ChunkBytes == {2 * BufferSize, 2 * BufferSize + 3840, 12 * BufferSize,
               2 * BufferSize + 1}

Max(a, b) == IF a >= b THEN a ELSE b
Min(a, b) == IF a <= b THEN a ELSE b

----------------------------------------------------------------------------
(* AudioStreamer: pure helpers *)

\* _processPCM16Chunk: a Float32Array of chunk.length / 2 samples.
ProcessPCM16Chunk(bytes) == bytes \div 2

\* AudioBuffer.duration of a buffer of n samples created at sampleRate: n / sampleRate
\* seconds, which is n sample periods.
Duration(n) == n

\* A slicing that keeps whole buffers only and drops the remainder.
RECURSIVE SliceBufferWhole(_, _, _, _, _)
SliceBufferWhole(frame, off, n, epoch, at) ==
  IF n >= BufferSize
    THEN <<[frame |-> frame, off |-> off, len |-> BufferSize, epoch |-> epoch, at |-> at]>>
         \o SliceBufferWhole(frame, off + BufferSize, n - BufferSize, epoch, at)
    ELSE <<>>

\* addPCM16's slicing of the processing buffer into queue entries.
RECURSIVE SliceBuffer(_, _, _, _, _)
SliceBuffer(frame, off, n, epoch, at) ==
  IF n >= BufferSize
    THEN <<[frame |-> frame, off |-> off, len |-> BufferSize, epoch |-> epoch, at |-> at]>>
         \o SliceBuffer(frame, off + BufferSize, n - BufferSize, epoch, at)
    ELSE IF n > 0
      THEN <<[frame |-> frame, off |-> off, len |-> n, epoch |-> epoch, at |-> at]>>
      ELSE <<>>

\* A restart that keeps the cursor stop() left behind.
StartCursorStale(t) == scheduledTime

\* scheduledTime when playback (re)starts.
StartCursor(t) == t + InitialBufferTime

\* A loop that schedules the whole queue, however far ahead.
CanScheduleNoWindow(q, s, t) == Len(q) > 0

\* The while condition of scheduleNextBuffer.
CanSchedule(q, s, t) == Len(q) > 0 /\ s < t + SCHEDULE_AHEAD_TIME

\* The drift protection inside the loop.
DriftCorrected(s, t) == IF s - t > maxDrift THEN t ELSE s

\* A source started at the clock time, whatever the cursor.
StartTimeNow(s, t) == t

\* The start time of the next source: Math.max(scheduledTime, currentTime).
StartTime(s, t) == Max(s, t)

\* A tick that reads the head of the queue and leaves it queued, as a tick
\* running inside another one would find it.
ShiftedKept(q) == [item |-> Head(q), rest |-> q]

\* audioQueue.pop(): the newest entry taken.
ShiftedLast(q) == [item |-> q[Len(q)], rest |-> SubSeq(q, 1, Len(q) - 1)]

\* audioQueue.shift(): the entry taken and the queue left.
Shifted(q) == [item |-> Head(q), rest |-> Tail(q)]

\* The node a new source is routed to: source -> sourceGain -> this.gainNode.
RouteTo(g) == g

\* The while loop of scheduleNextBuffer, from queue q, cursor s, sources U and
\* end-of-queue source e.
RECURSIVE ScheduleLoop(_, _, _, _)
ScheduleLoop(q, s, U, e) ==
  IF CanSchedule(q, s, now)
    THEN LET sh == Shifted(q)
             c == sh.item
             e2 == IF Len(sh.rest) = 0 THEN Len(U) + 1 ELSE e
             s1 == DriftCorrected(s, now)
             startTime == StartTime(s1, now)
             endTime == startTime + Duration(c.len)
             u == [start |-> startTime, end |-> endTime, frame |-> c.frame,
                   off |-> c.off, len |-> c.len, node |-> RouteTo(gainNode),
                   stopAt |-> NoTimer, epoch |-> c.epoch, at |-> c.at]
         IN ScheduleLoop(sh.rest, endTime, Append(U, u), e2)
    ELSE [q |-> q, s |-> s, U |-> U, e |-> e]

\* The delay of the reschedule timer: max(0, nextCheckTime - 50).
RescheduleDue(s, t) == t + Max(0, (s - t) - RescheduleLead)

\* scheduleNextBuffer() run to completion from the queue q, the cursor s, the
\* playing flag p, the poll timer ci, the stream-complete flag sc and the pending
\* reschedule timers tm: the values it leaves.
ScheduleNextBuffer(q, s, p, ci, sc, tm) ==
  IF isScheduling
    THEN [q |-> q, s |-> s, U |-> units, e |-> endOfQueueAudioSource,
          p |-> p, ci |-> ci, t |-> tm]
    ELSE LET r == ScheduleLoop(q, s, units, endOfQueueAudioSource)
         IN IF Len(r.q) = 0
              THEN IF sc
                     THEN [q |-> r.q, s |-> r.s, U |-> r.U, e |-> r.e,
                           p |-> FALSE, ci |-> NoTimer, t |-> tm]
                     ELSE [q |-> r.q, s |-> r.s, U |-> r.U, e |-> r.e, p |-> p,
                           ci |-> IF ci = NoTimer THEN now + PollInterval ELSE ci,
                           t |-> tm]
              ELSE [q |-> r.q, s |-> r.s, U |-> r.U, e |-> r.e, p |-> p, ci |-> ci,
                    t |-> tm (+) SetToBag({RescheduleDue(r.s, now)})]

\* The poll callback's handling of its own timer after it has scheduled:
\* if (this.checkInterval) { clearInterval(...); this.checkInterval = null }.
PollAfterSchedule(ci) == NoTimer

\* The time a stopped or finished source falls silent.
SourceEnd(u) == IF u.stopAt = NoTimer THEN u.end ELSE Min(u.end, Max(u.stopAt, u.start))

\* A source is audible at some time in (a, b): it is playing then, and its gain
\* node is connected to the output chain with gain 1.
Audible(u, a, b) ==
  /\ Max(u.start, a) < Min(SourceEnd(u), b)
  /\ nodes[u.node].connected
  /\ nodes[u.node].gain = 1

----------------------------------------------------------------------------
(* AudioStreamer: operations *)

InitAudio ==
  /\ now = 0
  /\ audioQueue = <<>>
  /\ isPlaying = FALSE
  /\ isStreamComplete = FALSE
  /\ isInterrupted = FALSE
  /\ isScheduling = FALSE
  /\ checkInterval = NoTimer
  /\ scheduledTime = 0
  /\ gainNode = 1
  /\ nodes = <<[connected |-> TRUE, gain |-> 1]>>
  /\ units = <<>>
  /\ endOfQueueAudioSource = 0
  /\ timers = EmptyBag
  /\ resets = EmptyBag
  /\ pushes = 0
  /\ oddFrames = {}
  /\ lastChunk = 0
  /\ stops = 0
  /\ heardStale = FALSE
  /\ last = "init"

\* The body of addPCM16(chunk).
StreamerAddPCM16(bytes) ==
  /\ LET q0 == IF isInterrupted THEN <<>> ELSE audioQueue
         q1 == q0 \o SliceBuffer(pushes + 1, 0, ProcessPCM16Chunk(bytes), stops, now)
         r == ScheduleNextBuffer(q1, StartCursor(now), TRUE, checkInterval, FALSE, timers)
     IN /\ nodes' = IF isInterrupted THEN [nodes EXCEPT ![gainNode].gain = 1] ELSE nodes
        /\ isInterrupted' = FALSE
        /\ isStreamComplete' = FALSE
        /\ IF ~isPlaying
             THEN /\ isPlaying' = r.p
                  /\ audioQueue' = r.q
                  /\ scheduledTime' = r.s
                  /\ units' = r.U
                  /\ endOfQueueAudioSource' = r.e
                  /\ checkInterval' = r.ci
                  /\ timers' = r.t
                  /\ last' = "pushTick"
             ELSE /\ audioQueue' = q1
                  /\ scheduledTime' = IF isInterrupted THEN StartCursor(now) ELSE scheduledTime
                  /\ last' = "push"
                  /\ UNCHANGED <<isPlaying, units, endOfQueueAudioSource, checkInterval, timers>>
  /\ pushes' = pushes + 1
  /\ oddFrames' = IF bytes % 2 = 1 THEN oddFrames \cup {pushes + 1} ELSE oddFrames
  /\ lastChunk' = bytes
  /\ UNCHANGED <<now, isScheduling, gainNode, resets, stops, heardStale>>

\* addPCM16(chunk), called for an audio chunk of the server.
AddPCM16(bytes) ==
  /\ pushes < MaxPushes
  /\ StreamerAddPCM16(bytes)
  /\ UNCHANGED <<connVars, recVars, wkVars>>

\* The body of stop().
StreamerStop ==
  /\ isPlaying' = FALSE
  /\ isStreamComplete' = TRUE
  /\ isInterrupted' = TRUE
  /\ audioQueue' = <<>>
  /\ scheduledTime' = now
  /\ checkInterval' = NoTimer
  /\ nodes' = [nodes EXCEPT ![gainNode].gain = 0]
  /\ units' = IF endOfQueueAudioSource # 0
                THEN [units EXCEPT ![endOfQueueAudioSource].stopAt = now]
                ELSE units
  /\ endOfQueueAudioSource' = 0
  /\ isScheduling' = FALSE
  /\ resets' = resets (+) SetToBag({now + ResetDelay})
  /\ stops' = stops + 1
  /\ last' = "stop"
  /\ UNCHANGED <<now, gainNode, timers, pushes, oddFrames, lastChunk, heardStale>>

\* stop(), called for the server's interrupted event.
Stop ==
  /\ stops < MaxStops
  /\ StreamerStop
  /\ UNCHANGED <<connVars, recVars, wkVars>>

\* The callback of the 100 ms setInterval.
PollFire ==
  /\ checkInterval # NoTimer
  /\ now >= checkInterval
  /\ IF Len(audioQueue) > 0
       THEN LET r == ScheduleNextBuffer(audioQueue, scheduledTime, isPlaying,
                                        checkInterval, isStreamComplete, timers)
            IN /\ audioQueue' = r.q
               /\ scheduledTime' = r.s
               /\ isPlaying' = r.p
               /\ units' = r.U
               /\ endOfQueueAudioSource' = r.e
               /\ timers' = r.t
               /\ checkInterval' = PollAfterSchedule(r.ci)
               /\ last' = "pollTick"
       ELSE /\ checkInterval' = now + PollInterval
            /\ last' = "poll"
            /\ UNCHANGED <<audioQueue, scheduledTime, isPlaying, units,
                           endOfQueueAudioSource, timers>>
  /\ UNCHANGED <<now, isStreamComplete, isInterrupted, isScheduling, gainNode, nodes,
                 resets, pushes, oddFrames, lastChunk, stops, heardStale>>
  /\ UNCHANGED <<connVars, recVars, wkVars>>

\* The callback of a reschedule setTimeout: scheduleNextBuffer().
TimerFire ==
  \E d \in BagToSet(timers):
    /\ now >= d
    /\ LET r == ScheduleNextBuffer(audioQueue, scheduledTime, isPlaying, checkInterval,
                                   isStreamComplete, timers (-) SetToBag({d}))
       IN /\ audioQueue' = r.q
          /\ scheduledTime' = r.s
          /\ isPlaying' = r.p
          /\ units' = r.U
          /\ endOfQueueAudioSource' = r.e
          /\ timers' = r.t
          /\ checkInterval' = r.ci
    /\ last' = "timerTick"
    /\ UNCHANGED <<now, isStreamComplete, isInterrupted, isScheduling, gainNode, nodes,
                   resets, pushes, oddFrames, lastChunk, stops, heardStale>>
    /\ UNCHANGED <<connVars, recVars, wkVars>>

\* The callback of stop()'s setTimeout(..., 50): the gain node is replaced.
ResetFire ==
  \E d \in BagToSet(resets):
    /\ now >= d
    /\ resets' = resets (-) SetToBag({d})
    /\ nodes' = Append([nodes EXCEPT ![gainNode].connected = FALSE],
                       [connected |-> TRUE, gain |-> 1])
    /\ gainNode' = Len(nodes) + 1
    /\ last' = "reset"
    /\ UNCHANGED <<now, audioQueue, isPlaying, isStreamComplete, isInterrupted,
                   isScheduling, checkInterval, scheduledTime, units,
                   endOfQueueAudioSource, timers, pushes, oddFrames, lastChunk, stops, heardStale>>
    /\ UNCHANGED <<connVars, recVars, wkVars>>

\* source.onended of the end-of-queue source.
OnEnded ==
  /\ endOfQueueAudioSource # 0
  /\ now >= units[endOfQueueAudioSource].end
  /\ Len(audioQueue) = 0
  /\ endOfQueueAudioSource' = 0
  /\ last' = "ended"
  /\ UNCHANGED <<now, audioQueue, isPlaying, isStreamComplete, isInterrupted,
                 isScheduling, checkInterval, scheduledTime, gainNode, nodes, units,
                 timers, resets, pushes, oddFrames, lastChunk, stops, heardStale>>
  /\ UNCHANGED <<connVars, recVars, wkVars>>

\* The due times of the pending timer callbacks.
Dues == BagToSet(timers) \cup BagToSet(resets)
          \cup (IF checkInterval = NoTimer THEN {} ELSE {checkInterval})

\* The next instant of the model: the earliest pending due time, or one time
\* step ahead when no timer is pending.
NextInstant ==
  LET later == {d \in Dues: d > now}
  IN IF later = {} THEN now + Step
     ELSE CHOOSE d \in later: \A x \in later: d <= x

\* The clock advances to the next instant; a timer callback runs at its due time.
Advance ==
  LET t == NextInstant
  IN /\ t <= MaxTime
     /\ \A d \in Dues: t <= d
     /\ now' = t
     /\ heardStale' = (heardStale \/ \E i \in 1..Len(units):
                                       units[i].epoch < stops /\ Audible(units[i], now, t))
     /\ last' = "advance"
     /\ UNCHANGED <<audioQueue, isPlaying, isStreamComplete, isInterrupted, isScheduling,
                    checkInterval, scheduledTime, gainNode, nodes, units,
                    endOfQueueAudioSource, timers, resets, pushes, oddFrames, lastChunk, stops>>
     /\ UNCHANGED <<connVars, recVars, wkVars>>

NextAudio ==
  \/ \E bytes \in ChunkBytes: AddPCM16(bytes)
  \/ Stop
  \/ PollFire
  \/ TimerFire
  \/ ResetFire
  \/ OnEnded
  \/ Advance

----------------------------------------------------------------------------
(* GenAILiveClient and the useLiveApi hook: constants and pure helpers *)

MAX_RECONNECT_ATTEMPTS == 5
RECONNECT_DELAY_MS == 2000
HEALTH_CHECK_INTERVAL == 60000
HEARTBEAT_TIMEOUT == 300000

\* The messages of the server the client tells apart.
InboundKinds == {"audio", "toolcall", "setupcomplete", "interrupted",
                 "transcript", "turncomplete"}

\* The listeners that refresh lastHeartbeatRef: onAudio (onOpen does it too).
RefreshesHeartbeat(kind) == kind = "audio"

\* The health check's test.
Unhealthy(t, heartbeat) == t - heartbeat > HEARTBEAT_TIMEOUT

\* The delay of the reconnect timer set for attempt number n.
ReconnectDelay(n) == RECONNECT_DELAY_MS * n

\* A connect() that never sees an earlier one in progress.
NeverInProgress(ref) == FALSE

\* connect()'s first check: if (isConnectingRef.current) return.
ConnectionInProgress(ref) == ref

\* GenAILiveClient.connect()'s first check: it returns false on these statuses.
ClientRefuses(status) == status \in {"connected", "connecting"}

\* getOrCreateClient()'s first check: the global client is reused.
ReusesGlobalClient ==
  globalClient # 0 /\ clients[globalClient].status = "connected"

\* No channel event was handled by the last step.
NoEvent == [op |-> "none", session |-> 0, reconnect |-> FALSE]

\* A server message, by the fields onMessage() tells apart; toolCall is the
\* list of its function calls.
NoMessage ==
  [setupComplete |-> FALSE, hasToolCall |-> FALSE, toolCall |-> <<>>,
   interrupted |-> FALSE, transcript |-> FALSE, audio |-> FALSE,
   turnComplete |-> FALSE]

\* The function calls of the tool call messages.
FunctionCalls ==
  {<<[id |-> 1, name |-> "switch_scene"]>>,
   <<[id |-> 2, name |-> "other"], [id |-> 1, name |-> "switch_scene"]>>}

\* The messages the server sends.
Messages ==
  {[NoMessage EXCEPT !.setupComplete = TRUE],
   [NoMessage EXCEPT !.interrupted = TRUE],
   [NoMessage EXCEPT !.interrupted = TRUE, !.audio = TRUE],
   [NoMessage EXCEPT !.transcript = TRUE],
   [NoMessage EXCEPT !.audio = TRUE],
   [NoMessage EXCEPT !.audio = TRUE, !.turnComplete = TRUE],
   [NoMessage EXCEPT !.turnComplete = TRUE]}
  \cup {[NoMessage EXCEPT !.hasToolCall = TRUE, !.toolCall = fcs]: fcs \in FunctionCalls}

NoMsg == [session |-> 0, msg |-> NoMessage, pushes |-> 0]

\* onMessage() without its test of serverContent.interrupted.
EmittedIgnoringInterrupted(m) ==
  IF m.setupComplete THEN <<"setupcomplete">>
  ELSE IF m.hasToolCall THEN <<"toolcall">>
  ELSE (IF m.transcript THEN <<"transcript">> ELSE <<>>)
       \o (IF m.audio THEN <<"audio">> ELSE <<>>)
       \o (IF m.turnComplete THEN <<"turncomplete">> ELSE <<>>)

\* GenAILiveClient.onMessage(): the events it emits for message m, in order.
Emitted(m) ==
  IF m.setupComplete THEN <<"setupcomplete">>
  ELSE IF m.hasToolCall THEN <<"toolcall">>
  ELSE IF m.interrupted THEN <<"interrupted">>
  ELSE (IF m.transcript THEN <<"transcript">> ELSE <<>>)
       \o (IF m.audio THEN <<"audio">> ELSE <<>>)
       \o (IF m.turnComplete THEN <<"turncomplete">> ELSE <<>>)

\* That the events ev hold an event of the kind.
Emits(ev, kind) == \E i \in 1..Len(ev): ev[i] = kind

\* No chunk was handed to addPCM16 by onAudio in this step.
NoPush == [bytes |-> 0, epoch |-> 0]

NoSend == [kind |-> "none", session |-> 0, entries |-> <<>>, dropped |-> FALSE,
           status |-> "none"]

\* The kinds of send call of GenAILiveClient.
OutboundKinds == {"audio", "text", "tool"}

\* The send calls that emit an 'error' event when the client is not connected:
\* send() and sendToolResponse(); sendRealtimeInput() only logs.
EmitsErrorWhenDropped(kind) == kind \in {"text", "tool"}

\* onToolCall builds one function response for each function call.
FunctionResponses(fcs) ==
  [i \in 1..Len(fcs) |-> [id |-> fcs[i].id, name |-> fcs[i].name]]

\* An onClose listener that never reconnects.
NeverReconnects(r, c) == FALSE

\* The hook's onClose listener hears the close event of client c and takes its
\* reconnect branch.
ReconnectsOnClose(r, c) == r.client = c /\ ~r.isManualDisconnectRef

\* The state of the hook, the module variables and the clients, as a record;
\* stop tells whether audioStreamer.stop() was called.
Cur ==
  [clients |-> clients, sessions |-> sessions, globalClient |-> globalClient,
   globalClientPromise |-> globalClientPromise, mountWaiting |-> mountWaiting,
   client |-> client, capturedClient |-> capturedClient,
   isConnectingRef |-> isConnectingRef,
   isManualDisconnectRef |-> isManualDisconnectRef,
   reconnectAttemptsRef |-> reconnectAttemptsRef,
   reconnectTimeoutRef |-> reconnectTimeoutRef, reconnectTimers |-> reconnectTimers,
   connected |-> connected, connectionStatus |-> connectionStatus,
   connPc |-> connPc, activeClient |-> activeClient, connSess |-> connSess,
   connFromTimer |-> connFromTimer, connCaptured |-> connCaptured,
   fetches |-> fetches, timersCreated |-> timersCreated,
   connectCalls |-> connectCalls, disconnects |-> disconnects,
   callsInFlight |-> callsInFlight, createdInFlight |-> createdInFlight,
   failedAttempts |-> failedAttempts, attemptsInRow |-> attemptsInRow,
   userDisconnected |-> userDisconnected, timerAtDisconnect |-> timerAtDisconnect,
   autoAfterDisconnect |-> autoAfterDisconnect, lastEvent |-> NoEvent,
   disconnectedMidConnect |-> disconnectedMidConnect,
   wallClock |-> wallClock, lastHeartbeatRef |-> lastHeartbeatRef,
   lastInbound |-> lastInbound, inbounds |-> inbounds, push |-> 0,
   lastMsg |-> NoMsg, lastSend |-> NoSend,
   contextState |-> contextState, resuming |-> resuming, lastPush |-> NoPush,
   stop |-> FALSE]

\* attemptReconnect(), whose connect captured the client cap.
AttemptReconnect(r, cap) ==
  IF r.isManualDisconnectRef
    THEN r
    ELSE IF r.reconnectAttemptsRef >= MAX_RECONNECT_ATTEMPTS
      THEN [r EXCEPT !.connectionStatus = "error"]
      ELSE [r EXCEPT !.reconnectAttemptsRef = @ + 1,
                     !.connectionStatus = "reconnecting",
                     !.timersCreated = @ + 1,
                     !.attemptsInRow = @ + 1,
                     !.reconnectTimeoutRef = r.timersCreated + 1,
                     !.reconnectTimers = @ \cup
                        {[id |-> r.timersCreated + 1, n |-> r.attemptsInRow + 1,
                          delay |-> ReconnectDelay(r.reconnectAttemptsRef + 1),
                          client |-> cap]}]

\* GenAILiveClient.onOpen() of client c and the hook's onOpen listener.
OnOpen(r, c) ==
  LET r1 == [r EXCEPT !.clients[c].status = "connected"]
  IN IF r.client = c
       THEN [r1 EXCEPT !.connected = TRUE, !.connectionStatus = "connected",
                       !.reconnectAttemptsRef = 0, !.attemptsInRow = 0,
                       !.lastHeartbeatRef = r.wallClock]
       ELSE r1

\* GenAILiveClient.onError() of client c and the hook's onError listener.
OnError(r, c) ==
  LET r1 == [r EXCEPT !.clients[c].status = "disconnected"]
  IN IF r.client = c THEN [r1 EXCEPT !.connectionStatus = "error"] ELSE r1

\* GenAILiveClient.onClose() of client c and the hook's onClose listener.
OnClose(r, c) ==
  LET r1 == [r EXCEPT !.clients[c].status = "disconnected"]
  IN IF r.client = c
       THEN IF ReconnectsOnClose(r, c)
              THEN AttemptReconnect([r1 EXCEPT !.connected = FALSE,
                                               !.connectionStatus = "reconnecting"],
                                    r.capturedClient)
              ELSE [r1 EXCEPT !.connected = FALSE, !.connectionStatus = "disconnected"]
       ELSE r1

\* GenAILiveClient.disconnect() of client c, called by disconnect() (manual)
\* or by the health check.
ClientDisconnect(r, c, by) ==
  LET s == r.clients[c].session
  IN [r EXCEPT !.sessions = IF s # 0 /\ @[s].state = "open"
                              THEN [@ EXCEPT ![s].state = "closing",
                                             ![s].closedBy = by]
                              ELSE @,
               !.clients[c].session = 0,
               !.clients[c].status = "disconnected"]

\* GenAILiveClient.send(), sendRealtimeInput() and sendToolResponse() of client
\* c: not connected, the call is dropped, and send() and sendToolResponse()
\* emit an 'error' event, which the hook's onError listener hears; connected,
\* the entries go out over the client's session (sendToolResponse() sends
\* nothing for an empty list).
ClientSend(r, c, kind, entries) ==
  LET sent == [kind |-> kind, session |-> r.clients[c].session,
               entries |-> entries, dropped |-> FALSE,
               status |-> r.connectionStatus]
  IN IF r.clients[c].status # "connected" \/ r.clients[c].session = 0
       THEN LET r1 == [r EXCEPT !.lastSend = [sent EXCEPT !.dropped = TRUE,
                                                          !.session = 0]]
            IN IF EmitsErrorWhenDropped(kind) /\ r.client = c
                 THEN [r1 EXCEPT !.connectionStatus = "error"]
                 ELSE r1
       ELSE IF kind = "tool" /\ Len(entries) = 0
              THEN r
              ELSE [r EXCEPT !.lastSend = sent]

\* connect() returns (its finally block); a reconnect timer that called it then
\* resets the attempt counter.
Finished(r, fromTimer) ==
  [r EXCEPT !.isConnectingRef = FALSE, !.connPc = "idle", !.activeClient = 0,
            !.connSess = 0, !.connFromTimer = FALSE, !.connCaptured = 0,
            !.reconnectAttemptsRef = IF fromTimer THEN 0 ELSE @]

\* connect() from its check of activeClient.status on, with activeClient = c.
ConnectOn(r, c, fromTimer, cap) ==
  IF r.clients[c].status = "connected"
    THEN Finished([r EXCEPT !.connected = TRUE, !.connectionStatus = "connected"],
                  fromTimer)
    ELSE LET r1 == [r EXCEPT !.connectionStatus = "connecting",
                             !.isManualDisconnectRef = FALSE,
                             !.stop = TRUE]
         IN IF ClientRefuses(r.clients[c].status)
              THEN Finished(r1, fromTimer)
              ELSE [r1 EXCEPT !.clients[c].status = "connecting",
                              !.sessions = Append(@, [owner |-> c, state |-> "opening",
                                                      token |-> r.clients[c].token,
                                                      closedBy |-> "none"]),
                              !.isConnectingRef = TRUE,
                              !.connPc = "open",
                              !.activeClient = c,
                              !.connSess = Len(r.sessions) + 1,
                              !.connFromTimer = fromTimer,
                              !.connCaptured = cap,
                              !.createdInFlight = @ + 1]

\* A getOrCreateClient() that never finds a creation in progress.
NoCreationInProgress(p) == FALSE

\* getOrCreateClient(): the test of globalClientPromise, made when no global
\* client is left; the promise is then null or pending.
CreationInProgress(p) == p = "pending"

\* getOrCreateClient() called by connect(): the global client is reused, or it
\* is dropped and connect() waits for a token fetch, a new one unless one is
\* already in progress.
GetOrCreateClient(r, fromTimer, cap) ==
  IF ReusesGlobalClient
    THEN ConnectOn([r EXCEPT !.client = globalClient], globalClient, fromTimer, cap)
    ELSE [r EXCEPT !.globalClient = 0,
                   !.globalClientPromise = "pending",
                   !.fetches = IF globalClient = 0 /\ CreationInProgress(globalClientPromise)
                                 THEN @ ELSE @ + 1,
                   !.isConnectingRef = TRUE,
                   !.connPc = "fetch",
                   !.connFromTimer = fromTimer,
                   !.connCaptured = cap]

\* connect() of the closure that captured the client cl.
Connect(cl, fromTimer) ==
  LET r0 == [Cur EXCEPT !.callsInFlight = IF connPc = "idle" THEN 1 ELSE @ + 1,
                        !.createdInFlight = IF connPc = "idle" THEN 0 ELSE @]
  IN IF ConnectionInProgress(isConnectingRef)
       THEN [r0 EXCEPT !.reconnectAttemptsRef = IF fromTimer THEN 0 ELSE @]
       ELSE IF cl # 0
              THEN ConnectOn(r0, cl, fromTimer, cl)
              ELSE GetOrCreateClient(r0, fromTimer, cl)

----------------------------------------------------------------------------
(* GenAILiveClient and the useLiveApi hook: operations *)

\* The hook after its first render: the mount effect has called
\* getOrCreateClient() and the token fetch is in progress.
InitConn ==
  /\ clients = <<>>
  /\ sessions = <<>>
  /\ globalClient = 0
  /\ globalClientPromise = "pending"
  /\ mountWaiting = TRUE
  /\ client = 0
  /\ capturedClient = 0
  /\ isConnectingRef = FALSE
  /\ isManualDisconnectRef = FALSE
  /\ reconnectAttemptsRef = 0
  /\ reconnectTimeoutRef = 0
  /\ reconnectTimers = {}
  /\ connected = FALSE
  /\ connectionStatus = "disconnected"
  /\ connPc = "idle"
  /\ activeClient = 0
  /\ connSess = 0
  /\ connFromTimer = FALSE
  /\ connCaptured = 0
  /\ fetches = 1
  /\ timersCreated = 0
  /\ connectCalls = 0
  /\ disconnects = 0
  /\ callsInFlight = 0
  /\ createdInFlight = 0
  /\ failedAttempts = 0
  /\ attemptsInRow = 0
  /\ userDisconnected = FALSE
  /\ timerAtDisconnect = FALSE
  /\ autoAfterDisconnect = FALSE
  /\ lastEvent = NoEvent
  /\ disconnectedMidConnect = FALSE
  /\ wallClock = 0
  /\ lastHeartbeatRef = 0
  /\ lastInbound = 0
  /\ inbounds = 0
  /\ lastMsg = NoMsg
  /\ lastSend = NoSend
  /\ contextState = "running"
  /\ resuming = <<>>
  /\ lastPush = NoPush

\* The step leaves the state r; the listener effect's cleanup calls
\* audioStreamer.stop() when the hook's client changes.
Apply(r) ==
  /\ Len(r.sessions) <= MaxSessions
  /\ r.fetches <= MaxFetches
  /\ clients' = r.clients
  /\ sessions' = r.sessions
  /\ globalClient' = r.globalClient
  /\ globalClientPromise' = r.globalClientPromise
  /\ mountWaiting' = r.mountWaiting
  /\ client' = r.client
  /\ capturedClient' = r.capturedClient
  /\ isConnectingRef' = r.isConnectingRef
  /\ isManualDisconnectRef' = r.isManualDisconnectRef
  /\ reconnectAttemptsRef' = r.reconnectAttemptsRef
  /\ reconnectTimeoutRef' = r.reconnectTimeoutRef
  /\ reconnectTimers' = r.reconnectTimers
  /\ connected' = r.connected
  /\ connectionStatus' = r.connectionStatus
  /\ connPc' = r.connPc
  /\ activeClient' = r.activeClient
  /\ connSess' = r.connSess
  /\ connFromTimer' = r.connFromTimer
  /\ connCaptured' = r.connCaptured
  /\ fetches' = r.fetches
  /\ timersCreated' = r.timersCreated
  /\ connectCalls' = r.connectCalls
  /\ disconnects' = r.disconnects
  /\ callsInFlight' = r.callsInFlight
  /\ createdInFlight' = r.createdInFlight
  /\ failedAttempts' = r.failedAttempts
  /\ attemptsInRow' = r.attemptsInRow
  /\ userDisconnected' = r.userDisconnected
  /\ timerAtDisconnect' = r.timerAtDisconnect
  /\ autoAfterDisconnect' = r.autoAfterDisconnect
  /\ lastEvent' = r.lastEvent
  /\ disconnectedMidConnect' = r.disconnectedMidConnect
  /\ wallClock' = r.wallClock
  /\ lastHeartbeatRef' = r.lastHeartbeatRef
  /\ lastInbound' = r.lastInbound
  /\ inbounds' = r.inbounds
  /\ lastMsg' = r.lastMsg
  /\ lastSend' = r.lastSend
  /\ contextState' = r.contextState
  /\ resuming' = r.resuming
  /\ lastPush' = r.lastPush
  /\ UNCHANGED <<recVars, wkVars>>
  /\ IF r.stop \/ (client # 0 /\ r.client # client)
       THEN StreamerStop
       ELSE IF r.push # 0
         THEN StreamerAddPCM16(r.push)
         ELSE UNCHANGED audioVars

\* connect() called from the UI, with the client of the latest render.
UIConnect ==
  /\ connectCalls < MaxConnectCalls
  /\ Apply([Connect(client, FALSE) EXCEPT !.connectCalls = @ + 1,
                                          !.userDisconnected = FALSE,
                                          !.timerAtDisconnect = FALSE,
                                          !.autoAfterDisconnect = FALSE,
                                          !.disconnectedMidConnect = FALSE])

\* The callback of a reconnect timer: await connect() of the captured closure.
ReconnectTimerFire ==
  \E t \in reconnectTimers:
    LET r == Connect(t.client, TRUE)
    IN Apply([r EXCEPT !.reconnectTimers = @ \ {t},
                       !.lastEvent = [op |-> "timer", session |-> 0,
                                      reconnect |-> connectionStatus = "reconnecting"],
                       !.autoAfterDisconnect =
                          @ \/ (userDisconnected /\ ~ConnectionInProgress(isConnectingRef))])

\* The token fetch of getOrCreateClient() ends; the mount effect and a waiting
\* connect() continue.
FetchDone(ok) ==
  /\ globalClientPromise = "pending"
  /\ LET c == Len(clients) + 1
         waiting == connPc = "fetch"
     IN IF ok
          THEN LET r0 == [Cur EXCEPT
                            !.clients = Append(@, [status |-> "disconnected",
                                                   session |-> 0, token |-> fetches]),
                            !.globalClient = c,
                            !.globalClientPromise = "resolved",
                            !.mountWaiting = FALSE,
                            !.client = IF mountWaiting \/ waiting THEN c ELSE @]
               IN Apply(IF waiting
                          THEN ConnectOn(r0, c, connFromTimer, connCaptured)
                          ELSE r0)
          ELSE LET r0 == [Cur EXCEPT !.globalClientPromise = "null",
                                     !.mountWaiting = FALSE]
                   r1 == Finished([r0 EXCEPT !.connectionStatus = "error",
                                             !.globalClient = 0,
                                             !.client = 0,
                                             !.failedAttempts =
                                                IF connFromTimer THEN @ + 1 ELSE @],
                                  FALSE)
               IN Apply(IF waiting
                          THEN IF connFromTimer
                                 THEN AttemptReconnect(r1, connCaptured)
                                 ELSE r1
                          ELSE r0)

\* The channel of session s opens: onopen, then live.connect() resolves and the
\* waiting GenAILiveClient.connect() and connect() continue.
SessionOpened(s) ==
  /\ sessions[s].state = "opening"
  /\ LET o == sessions[s].owner
         r1 == OnOpen([Cur EXCEPT !.sessions[s].state = "open",
                                  !.lastEvent = [op |-> "opened", session |-> s,
                                                 reconnect |-> FALSE]], o)
     IN Apply(IF connPc = "open" /\ connSess = s
                THEN Finished([r1 EXCEPT !.clients[o].session = s,
                                         !.clients[o].status = "connected",
                                         !.failedAttempts = 0],
                              connFromTimer)
                ELSE r1)

\* live.connect() rejects: the catch block of GenAILiveClient.connect().
OpenFailed(s) ==
  /\ sessions[s].state = "opening"
  /\ connPc = "open"
  /\ connSess = s
  /\ LET o == sessions[s].owner
     IN Apply(Finished(OnError([Cur EXCEPT !.sessions[s].state = "closed",
                                           !.lastEvent = [op |-> "openFailed",
                                                          session |-> s,
                                                          reconnect |-> FALSE],
                                           !.clients[o].session = 0,
                                           !.failedAttempts =
                                              IF connFromTimer THEN @ + 1 ELSE @], o),
                       connFromTimer))

\* The channel of session s fails: its error event and then its close event
\* are delivered, one right after the other.
SessionError(s) ==
  /\ sessions[s].state = "open"
  /\ Apply(OnClose(OnError([Cur EXCEPT !.sessions[s].state = "closed",
                                       !.lastEvent =
                                          [op |-> "error", session |-> s,
                                           reconnect |->
                                             ReconnectsOnClose(Cur, sessions[s].owner)]],
                           sessions[s].owner),
                   sessions[s].owner))

\* The close event of session s is delivered: the server closed the channel, or
\* the close handshake that GenAILiveClient.disconnect() started has ended.
SessionClosed(s) ==
  /\ sessions[s].state \in {"open", "closing"}
  /\ Apply(OnClose([Cur EXCEPT !.sessions[s].state = "closed",
                               !.lastEvent =
                                  [op |-> "closed", session |-> s,
                                   reconnect |->
                                     ReconnectsOnClose(Cur, sessions[s].owner)]],
                   sessions[s].owner))

\* disconnect()
Disconnect ==
  /\ disconnects < MaxDisconnects
  /\ LET r1 == [Cur EXCEPT !.isManualDisconnectRef = TRUE,
                           !.reconnectTimers = {t \in @: t.id # reconnectTimeoutRef},
                           !.reconnectTimeoutRef = 0,
                           !.reconnectAttemptsRef = 0,
                           !.stop = TRUE,
                           !.connected = FALSE,
                           !.connectionStatus = "disconnected",
                           !.disconnects = @ + 1,
                           !.lastEvent = [op |-> "disconnect", session |-> 0,
                                          reconnect |-> FALSE],
                           !.failedAttempts = 0,
                           !.attemptsInRow = 0,
                           !.userDisconnected = TRUE,
                           !.timerAtDisconnect = reconnectTimers # {},
                           !.autoAfterDisconnect = FALSE,
                           !.disconnectedMidConnect = connPc # "idle"]
     IN Apply(IF client # 0 THEN ClientDisconnect(r1, client, "manual") ELSE r1)

\* setConfig() from the lesson layout: attemptReconnect is created again and
\* captures the connect, and so the client, of this render.
SetConfig ==
  /\ capturedClient # client
  /\ Apply([Cur EXCEPT !.capturedClient = client, !.stop = client # 0])

\* onAudio waits for context.resume() before it plays the chunk.
AwaitsResume(state) == state = "suspended"

\* The hook's onAudio listener for a chunk of `bytes` bytes: the heartbeat is
\* refreshed; with the output context suspended the handler awaits
\* context.resume(), otherwise it calls addPCM16 at once.
OnAudio(r, bytes) ==
  LET r1 == [r EXCEPT !.lastHeartbeatRef = r.wallClock]
      h == [bytes |-> bytes, epoch |-> stops]
  IN IF AwaitsResume(r.contextState)
       THEN [r1 EXCEPT !.resuming = Append(@, h)]
       ELSE [r1 EXCEPT !.push = bytes, !.lastPush = h]

\* A message of the server arrives on session s and the client emits its
\* events: onAudio refreshes the heartbeat and plays the chunk, stopAudioStreamer
\* stops the player, onToolCall answers; onSetupComplete only logs, and the
\* hook has no listener for the other events.
Inbound(s, m) ==
  /\ sessions[s].state = "open"
  /\ client = sessions[s].owner
  /\ inbounds < MaxInbound
  /\ m.audio => pushes + Len(resuming) < MaxPushes
  /\ LET ev == Emitted(m)
         r1 == [Cur EXCEPT !.lastInbound = wallClock,
                           !.inbounds = @ + 1,
                           !.lastMsg = [session |-> s, msg |-> m, pushes |-> pushes],
                           !.lastHeartbeatRef =
                              IF \E k \in InboundKinds:
                                   Emits(ev, k) /\ RefreshesHeartbeat(k)
                                THEN wallClock ELSE @,
                           !.stop = Emits(ev, "interrupted")]
         r2 == IF Emits(ev, "audio") THEN OnAudio(r1, 2 * BufferSize) ELSE r1
     IN Apply(IF Emits(ev, "toolcall")
                THEN ClientSend(r2, client, "tool", FunctionResponses(m.toolCall))
                ELSE r2)

\* A component sends audio or text through the client the hook returned.
ClientSendCall(kind) ==
  /\ client # 0
  /\ Apply(ClientSend(Cur, client, kind, <<>>))

\* An 'audio' event of the client reaches the hook's onAudio listener.
AudioEvent ==
  /\ pushes + Len(resuming) < MaxPushes
  /\ Apply(OnAudio(Cur, 2 * BufferSize))

\* An 'interrupted' event of the client reaches stopAudioStreamer.
InterruptedEvent ==
  /\ stops < MaxStops
  /\ Apply([Cur EXCEPT !.stop = TRUE])

\* The browser suspends the output context (autoplay policy, hidden page).
ContextSuspends ==
  /\ contextState = "running"
  /\ pushes + Len(resuming) < MaxPushes
  /\ Apply([Cur EXCEPT !.contextState = "suspended"])

\* context.resume() of the onAudio handler that waited longest settles, and
\* the handler continues: a failure is logged, and addPCM16 is called.
ResumeDone(ok) ==
  /\ resuming # <<>>
  /\ LET h == Head(resuming)
     IN Apply([Cur EXCEPT !.resuming = Tail(@),
                          !.contextState = IF ok THEN "running" ELSE @,
                          !.push = h.bytes,
                          !.lastPush = h])

\* One health check interval passes while connected, and the setInterval
\* callback of the health check runs.  A reconnect timer waits for at most
\* ReconnectDelay(MAX_RECONNECT_ATTEMPTS), less than the interval, so none
\* stays pending over it.
HealthCheck ==
  /\ connected
  /\ client # 0
  /\ reconnectTimers = {}
  /\ wallClock < MaxHealthChecks * HEALTH_CHECK_INTERVAL
  /\ LET t == wallClock + HEALTH_CHECK_INTERVAL
         r1 == [Cur EXCEPT !.wallClock = t]
     IN Apply(IF Unhealthy(t, lastHeartbeatRef)
                THEN ClientDisconnect(r1, client, "health")
                ELSE r1)

NextConn ==
  \/ UIConnect
  \/ ReconnectTimerFire
  \/ \E ok \in BOOLEAN: FetchDone(ok)
  \/ \E s \in 1..Len(sessions): SessionOpened(s)
  \/ \E s \in 1..Len(sessions): OpenFailed(s)
  \/ \E s \in 1..Len(sessions): SessionError(s)
  \/ \E s \in 1..Len(sessions): SessionClosed(s)
  \/ Disconnect
  \/ SetConfig

\* The hook while the user leaves the session alone, with the messages of the
\* server and the health check.
NextHealth ==
  \/ UIConnect
  \/ ReconnectTimerFire
  \/ \E ok \in BOOLEAN: FetchDone(ok)
  \/ \E s \in 1..Len(sessions): SessionOpened(s)
  \/ \E s \in 1..Len(sessions): OpenFailed(s)
  \/ \E s \in 1..Len(sessions): SessionError(s)
  \/ \E s \in 1..Len(sessions): SessionClosed(s)
  \/ \E s \in 1..Len(sessions): \E m \in Messages: Inbound(s, m)
  \/ HealthCheck

\* The hook with the messages of the server and the send calls of the
\* components, the health check left out.
NextSend ==
  \/ UIConnect
  \/ ReconnectTimerFire
  \/ \E ok \in BOOLEAN: FetchDone(ok)
  \/ \E s \in 1..Len(sessions): SessionOpened(s)
  \/ \E s \in 1..Len(sessions): OpenFailed(s)
  \/ \E s \in 1..Len(sessions): SessionError(s)
  \/ \E s \in 1..Len(sessions): SessionClosed(s)
  \/ Disconnect
  \/ \E s \in 1..Len(sessions): \E m \in Messages: Inbound(s, m)
  \/ \E kind \in {"audio", "text"}: ClientSendCall(kind)

-----------------------------------------------------------------------------
(* AudioRecorder *)

\* The awaits of the promise executor of start(), in order.
Running == {"getUserMedia", "audioContext", "addModule"}

NoSettle == [id |-> 0, outcome |-> "none", joined |-> 0, joinedOutcome |-> "none",
             stopRequested |-> FALSE]

\* A start() that ignores the start in progress.
NeverStarting(p) == FALSE

\* start(): the test of this.starting.
StartInProgress(p) == p # 0

\* A stop() that never waits for the start in progress.
NeverDefers(p) == FALSE

\* stop(): the test of this.starting that defers handleStop.
DefersStop(p) == p # 0

\* 'await this.starting' in a joined start(): it returns when the promise is
\* fulfilled and throws its reason when the promise is rejected.
AwaitOutcome(outcome) == IF outcome = "rejected" THEN "rejected" ELSE "resolved"

InitRecorder ==
  /\ starting = 0
  /\ recording = FALSE
  /\ stream = 0
  /\ source = FALSE
  /\ recordingWorklet = FALSE
  /\ executors = <<>>
  /\ waiters = <<>>
  /\ chainedStops = <<>>
  /\ deviceRequests = 0
  /\ liveTracks = {}
  /\ recStarts = 0
  /\ recStops = 0
  /\ stopRequested = <<>>
  /\ lastSettle = NoSettle
  /\ lastCall = "none"

\* handleStop of stop(), or no call of it, on the fields as the executor left
\* them.
HandleStop(run, rec, str, src, wk, lt) ==
  IF run
    THEN /\ recording' = FALSE
         /\ stream' = 0
         /\ source' = FALSE
         /\ recordingWorklet' = FALSE
         /\ liveTracks' = lt \ {str}
    ELSE /\ recording' = rec
         /\ stream' = str
         /\ source' = src
         /\ recordingWorklet' = wk
         /\ liveTracks' = lt

\* The promise of executor id settles: finally resets this.starting, the
\* joined start() calls continue, the chained handleStop callbacks run.
Settle(id, outcome, rec, str, src, wk, lt) ==
  /\ executors' = [executors EXCEPT ![id] = outcome]
  /\ starting' = 0
  /\ waiters' = [waiters EXCEPT ![id] = 0]
  /\ chainedStops' = [chainedStops EXCEPT ![id] = 0]
  /\ lastSettle' = [id |-> id, outcome |-> outcome, joined |-> waiters[id],
                    joinedOutcome |-> IF waiters[id] > 0
                                        THEN AwaitOutcome(outcome) ELSE "none",
                    stopRequested |-> stopRequested[id]]
  /\ HandleStop(chainedStops[id] > 0, rec, str, src, wk, lt)

\* start()
RecorderStart ==
  /\ recStarts < MaxStarts
  /\ recStarts' = recStarts + 1
  /\ lastCall' = "start"
  /\ lastSettle' = NoSettle
  /\ IF StartInProgress(starting)
       THEN /\ waiters' = [waiters EXCEPT ![starting] = @ + 1]
            /\ UNCHANGED <<starting, executors, chainedStops, deviceRequests,
                           stopRequested>>
       ELSE IF recording
         THEN UNCHANGED <<starting, executors, waiters, chainedStops,
                          deviceRequests, stopRequested>>
         ELSE /\ executors' = Append(executors, "getUserMedia")
              /\ waiters' = Append(waiters, 0)
              /\ chainedStops' = Append(chainedStops, 0)
              /\ stopRequested' = Append(stopRequested, FALSE)
              /\ starting' = Len(executors) + 1
              /\ deviceRequests' = deviceRequests + 1
  /\ UNCHANGED <<recording, stream, source, recordingWorklet, liveTracks, recStops>>
  /\ UNCHANGED <<audioVars, connVars, wkVars>>

\* getUserMedia() of executor id answers: the stream is granted, or the
\* request is refused and the catch block rejects the promise.
GetUserMediaDone(id, ok) ==
  /\ executors[id] = "getUserMedia"
  /\ deviceRequests' = deviceRequests - 1
  /\ IF ok
       THEN /\ stream' = id
            /\ liveTracks' = liveTracks \cup {id}
            /\ executors' = [executors EXCEPT ![id] = "audioContext"]
            /\ lastSettle' = NoSettle
            /\ UNCHANGED <<starting, recording, source, recordingWorklet,
                           waiters, chainedStops>>
       ELSE Settle(id, "rejected", recording, stream, source, recordingWorklet,
                   liveTracks)
  /\ UNCHANGED <<recStarts, recStops, stopRequested, lastCall>>
  /\ UNCHANGED <<audioVars, connVars, wkVars>>

\* audioContext() of executor id answers and the source node is created on
\* this.stream, or either fails and the catch block rejects the promise.
AudioContextDone(id, ok) ==
  /\ executors[id] = "audioContext"
  /\ IF ok /\ stream # 0
       THEN /\ source' = TRUE
            /\ executors' = [executors EXCEPT ![id] = "addModule"]
            /\ lastSettle' = NoSettle
            /\ UNCHANGED <<starting, recording, stream, recordingWorklet, waiters,
                           chainedStops, liveTracks>>
       ELSE Settle(id, "rejected", recording, stream, source, recordingWorklet,
                   liveTracks)
  /\ UNCHANGED <<deviceRequests, recStarts, recStops, stopRequested, lastCall>>
  /\ UNCHANGED <<audioVars, connVars, wkVars>>

\* The worklet modules of executor id are added, the worklets are connected
\* and the promise is resolved; or addModule() fails outside the try block,
\* the executor ends and its promise is never settled.
AddModuleDone(id, ok) ==
  /\ executors[id] = "addModule"
  /\ IF ok /\ source
       THEN Settle(id, "resolved", TRUE, stream, source, TRUE, liveTracks)
       ELSE /\ executors' = [executors EXCEPT ![id] = "hung"]
            /\ lastSettle' = NoSettle
            /\ UNCHANGED <<starting, recording, stream, source, recordingWorklet,
                           waiters, chainedStops, liveTracks>>
  /\ UNCHANGED <<deviceRequests, recStarts, recStops, stopRequested, lastCall>>
  /\ UNCHANGED <<audioVars, connVars, wkVars>>

\* stop()
RecorderStop ==
  /\ recStops < MaxRecorderStops
  /\ recStops' = recStops + 1
  /\ lastCall' = "stop"
  /\ lastSettle' = NoSettle
  /\ stopRequested' = [e \in 1..Len(executors) |->
                         stopRequested[e] \/ executors[e] \in Running]
  /\ IF ~recording /\ starting = 0
       THEN UNCHANGED <<recording, stream, source, recordingWorklet, liveTracks,
                        chainedStops>>
       ELSE IF DefersStop(starting)
         THEN /\ chainedStops' = [chainedStops EXCEPT ![starting] = @ + 1]
              /\ UNCHANGED <<recording, stream, source, recordingWorklet,
                             liveTracks>>
         ELSE /\ HandleStop(TRUE, recording, stream, source, recordingWorklet,
                            liveTracks)
              /\ UNCHANGED chainedStops
  /\ UNCHANGED <<starting, executors, waiters, deviceRequests, recStarts>>
  /\ UNCHANGED <<audioVars, connVars, wkVars>>

NextRecorder ==
  \/ RecorderStart
  \/ RecorderStop
  \/ \E id \in 1..Len(executors): \E ok \in BOOLEAN: GetUserMediaDone(id, ok)
  \/ \E id \in 1..Len(executors): \E ok \in BOOLEAN: AudioContextDone(id, ok)
  \/ \E id \in 1..Len(executors): \E ok \in BOOLEAN: AddModuleDone(id, ok)

----------------------------------------------------------------------------
(* AudioProcessingWorklet *)

\* new Int16Array(2048): the length of a chunk.
FrameLength == 2048

\* The rate the worklet resamples to.
TargetRate == 16000

\* The sample rates of the capture context: below the target rate, equal to
\* it, a non-integer multiple of it and an integer multiple of it.
HardwareRates == {8000, 16000, 44100, 48000}

\* The lengths of the channel data handed to process(): one render quantum.
QuantumLengths == {128}

NoFrame == [samples |-> <<>>, after |-> 0]

\* Math.floor(this.resampleRatio), with resampleRatio = sampleRate / 16000.
SamplesToAverage(rate) == rate \div TargetRate

\* The while condition of processChunk: resampleBuffer.length >= resampleRatio.
CanResample(len, rate) == len * TargetRate >= rate

InitWorklet ==
  /\ hwRate = 0
  /\ resampleBuffer = <<>>
  /\ buffer = <<>>
  /\ bufferWriteIndex = 0
  /\ wkPc = "idle"
  /\ capturedCount = 0
  /\ processCalls = 0
  /\ framesSent = 0
  /\ covered = 0
  /\ lastFrame = NoFrame

\* The worklet is constructed in a capture context of the given sample rate.
WorkletConstruct(rate) ==
  /\ hwRate = 0
  /\ hwRate' = rate
  /\ UNCHANGED <<resampleBuffer, buffer, bufferWriteIndex, wkPc, capturedCount,
                 processCalls, framesSent, covered, lastFrame>>
  /\ UNCHANGED <<audioVars, connVars, recVars>>

\* process(inputs) with l samples in channel 0, up to the while loop of
\* processChunk: the samples are appended to resampleBuffer.
Process(l) ==
  /\ hwRate # 0
  /\ wkPc = "idle"
  /\ processCalls < MaxProcessCalls
  /\ processCalls' = processCalls + 1
  /\ resampleBuffer' = resampleBuffer \o [i \in 1..l |-> capturedCount + i]
  /\ capturedCount' = capturedCount + l
  /\ wkPc' = "loop"
  /\ lastFrame' = NoFrame
  /\ UNCHANGED <<hwRate, buffer, bufferWriteIndex, framesSent, covered>>
  /\ UNCHANGED <<audioVars, connVars, recVars>>

\* One iteration of the while loop of processChunk: samplesToAverage samples
\* are shifted out and averaged into the next output sample, and a full
\* buffer is posted by sendAndClearBuffer.
ResampleStep ==
  /\ wkPc = "loop"
  /\ CanResample(Len(resampleBuffer), hwRate)
  /\ framesSent < MaxFrames
  /\ LET k == Min(SamplesToAverage(hwRate), Len(resampleBuffer))
         entry == [first |-> IF k > 0 THEN Head(resampleBuffer) ELSE 0, count |-> k]
         written == Append(buffer, entry)
     IN /\ resampleBuffer' = SubSeq(resampleBuffer, k + 1, Len(resampleBuffer))
        /\ IF bufferWriteIndex + 1 >= FrameLength
             THEN /\ lastFrame' = [samples |-> written, after |-> covered]
                  /\ covered' = IF k > 0 THEN entry.first + k - 1 ELSE covered
                  /\ buffer' = <<>>
                  /\ bufferWriteIndex' = 0
                  /\ framesSent' = framesSent + 1
             ELSE /\ buffer' = written
                  /\ bufferWriteIndex' = bufferWriteIndex + 1
                  /\ lastFrame' = NoFrame
                  /\ UNCHANGED <<covered, framesSent>>
  /\ UNCHANGED <<hwRate, wkPc, capturedCount, processCalls>>
  /\ UNCHANGED <<audioVars, connVars, recVars>>

\* The while condition of processChunk fails and process() returns.
ProcessReturn ==
  /\ wkPc = "loop"
  /\ ~CanResample(Len(resampleBuffer), hwRate)
  /\ wkPc' = "idle"
  /\ lastFrame' = NoFrame
  /\ UNCHANGED <<hwRate, resampleBuffer, buffer, bufferWriteIndex, capturedCount,
                 processCalls, framesSent, covered>>
  /\ UNCHANGED <<audioVars, connVars, recVars>>

NextWorklet ==
  \/ \E rate \in HardwareRates: WorkletConstruct(rate)
  \/ \E l \in QuantumLengths: Process(l)
  \/ ResampleStep
  \/ ProcessReturn

-----------------------------------------------------------------------------

Init == InitAudio /\ InitConn /\ InitRecorder /\ InitWorklet

SpecAudio == Init /\ [][NextAudio]_vars

SpecConn == Init /\ [][NextConn]_vars

SpecHealth == Init /\ [][NextHealth]_vars

SpecSend == Init /\ [][NextSend]_vars

\* The hook's audio listeners with the player: audio and interrupted events,
\* the output context suspended and resumed, and the player's timers.  The
\* chunks are of 320 ms, at most MaxPushes of them, so the queue is always
\* scheduled whole and no reschedule timeout is ever set.
NextPlayback ==
  \/ AudioEvent
  \/ InterruptedEvent
  \/ ContextSuspends
  \/ \E ok \in BOOLEAN: ResumeDone(ok)
  \/ PollFire
  \/ ResetFire
  \/ OnEnded
  \/ Advance

SpecPlayback == Init /\ [][NextPlayback]_vars

SpecRecorder == Init /\ [][NextRecorder]_vars

SpecWorklet == Init /\ [][NextWorklet]_vars

----------------------------------------------------------------------------
(* Claims about the connection *)

\* The sessions whose channel is open.
LiveSessions == {s \in 1..Len(sessions): sessions[s].state = "open"}

\* The sessions live.connect() is still opening.
OpeningSessions == {s \in 1..Len(sessions): sessions[s].state = "opening"}

\* C1: at most one session is open at any time, and no session is being
\* opened while another one is still open.
C1_AtMostOneLiveSession ==
  /\ Cardinality(LiveSessions) <= 1
  /\ OpeningSessions # {} => LiveSessions = {}

\* C2: the connect() calls made while an earlier connect() has not returned
\* create no session: at most one session is created from the first call to
\* its return, and at most one is being opened at any time.
C2_SingleFlightConnect ==
  /\ createdInFlight <= 1
  /\ Cardinality(OpeningSessions) <= 1

C2_Witness ==
  /\ callsInFlight >= 2
  /\ createdInFlight = 1
  /\ connPc = "idle"
  /\ LiveSessions # {}

\* C11: the supervisor gives up after exactly MAX_RECONNECT_ATTEMPTS failed
\* reconnect attempts in a row: never more attempts than that, after the last
\* one the state is 'error' and no attempt is pending, and after fewer an
\* attempt is pending or running, whether the attempt failed in the token fetch
\* or in opening the channel.
C11_GivesUpAfterMaxAttempts ==
  /\ failedAttempts <= MAX_RECONNECT_ATTEMPTS
  /\ failedAttempts = MAX_RECONNECT_ATTEMPTS
       => (connectionStatus = "error" /\ reconnectTimers = {} /\ connPc = "idle")
  /\ (failedAttempts >= 1 /\ failedAttempts < MAX_RECONNECT_ATTEMPTS)
       => (reconnectTimers # {} \/ connPc # "idle")

\* C12: the timer of the n-th reconnect attempt in a row is set with the delay
\* RECONNECT_DELAY_MS * n, for n from 1 to MAX_RECONNECT_ATTEMPTS.
C12_BackoffDelay ==
  \A t \in reconnectTimers:
    t.n \in 1..MAX_RECONNECT_ATTEMPTS /\ t.delay = RECONNECT_DELAY_MS * t.n

\* C13: after a disconnect() called while a reconnect timer was pending, no
\* timer starts a connect attempt until the user calls connect() again.
C13_NoAttemptAfterDisconnect ==
  (userDisconnected /\ timerAtDisconnect) => ~autoAfterDisconnect

\* C14: the close or error event of a session that disconnect() tore down
\* never starts a reconnect attempt and never moves the state to
\* 'reconnecting', whenever it is delivered.
C14_ManualCloseNeverReconnects ==
  (lastEvent.op \in {"closed", "error"} /\ sessions[lastEvent.session].closedBy = "manual")
    => ~lastEvent.reconnect

\* C15: after a disconnect() called while connect() was waiting for the token
\* fetch or for the channel to open, no session is open and the state stays
\* 'disconnected', until the user calls connect() again.
C15_DisconnectAbandonsConnect ==
  disconnectedMidConnect
    => (LiveSessions = {} /\ connectionStatus = "disconnected")

\* C16: no two sessions are opened with the same token: each connect attempt
\* uses a token fetched for it.
C16_FreshTokenPerSession ==
  \A s1, s2 \in 1..Len(sessions):
    s1 # s2 => sessions[s1].token # sessions[s2].token

\* C19: whenever a close event or an error event of the hook's client arrives
\* while no manual disconnect is in effect, the state is 'reconnecting' and a
\* reconnect timer is set.
C19_ClosedOrErrorReconnects ==
  (/\ lastEvent.op \in {"closed", "error", "openFailed"}
   /\ sessions[lastEvent.session].owner = client
   /\ ~isManualDisconnectRef)
    => (connectionStatus = "reconnecting" /\ reconnectTimers # {})

\* The sessions whose channel is open or opening, or whose close event is
\* still to come.
UsableSessions ==
  {s \in 1..Len(sessions): sessions[s].state \in {"opening", "open", "closing"}}

\* C20: the state is never 'connected' or 'connecting' with no session open,
\* opening or closing and no connect() in progress: once the session is lost
\* the state is 'reconnecting', 'disconnected' or 'error'.
C20_NeverStuckConnected ==
  connectionStatus \in {"connected", "connecting"}
    => (UsableSessions # {} \/ connPc # "idle")

\* The sessions the health check closed.
HealthClosed == {s \in 1..Len(sessions): sessions[s].closedBy = "health"}

C18_InboundRefreshesHeartbeat ==
  /\ lastHeartbeatRef >= lastInbound
  /\ \A s \in HealthClosed:
       sessions[s].state = "closing" => wallClock - lastInbound > HEARTBEAT_TIMEOUT

\* C21: when the SetupComplete message of a session is handled, the text turn
\* that triggers the first turn is sent, once, over that session.
C21_TriggerOnSetupComplete ==
  lastMsg.msg.setupComplete
    => (/\ lastSend.kind = "text"
        /\ ~lastSend.dropped
        /\ lastSend.session = lastMsg.session)

\* C22: a send call that is dropped because the client is not connected leaves
\* the connection status as it was (and so shows no error).
C22_DroppedSendIsSilent ==
  lastSend.dropped => connectionStatus = lastSend.status

\* C23: when a message with the interrupted flag has been handled, stop() of
\* the player was the operation that ran, the queue is empty and no audio of
\* the message was pushed.
C23_InterruptFirst ==
  lastMsg.msg.interrupted
    => (last = "stop" /\ audioQueue = <<>> /\ pushes = lastMsg.pushes)

\* C23, its case: a message with the interrupted flag that carries audio has
\* been handled after an audio chunk had been pushed.
C23_Witness ==
  /\ lastMsg.msg.interrupted
  /\ lastMsg.msg.audio
  /\ lastMsg.pushes > 0
  /\ last = "stop"

\* C24: after every call of disconnect(), the first and a repeated one, the
\* manual flag is set, no reconnect timer is pending, the player is stopped
\* with an empty queue, no channel is open and the state is 'disconnected'.
C24_DisconnectIdempotent ==
  lastEvent.op = "disconnect"
    => (/\ isManualDisconnectRef
        /\ reconnectTimers = {}
        /\ reconnectTimeoutRef = 0
        /\ audioQueue = <<>>
        /\ ~isPlaying
        /\ LiveSessions = {}
        /\ ~connected
        /\ connectionStatus = "disconnected")

\* C25: when the open event of a session has been handled the state is
\* 'connected', the reconnect counter is 0, the heartbeat is the present time
\* and the health check effect has a client to watch.
C25_OpenedMeansConnected ==
  lastEvent.op = "opened"
    => (/\ connected
        /\ connectionStatus = "connected"
        /\ reconnectAttemptsRef = 0
        /\ lastHeartbeatRef = wallClock
        /\ client # 0)

\* C29: a tool call with k function calls received on a session is answered
\* by one tool response sent over that session, with k entries, the i-th
\* carrying the id and the name of the i-th call.
C29_ToolResponsePerCall ==
  lastMsg.msg.hasToolCall
    => (/\ lastSend.kind = "tool"
        /\ ~lastSend.dropped
        /\ lastSend.session = lastMsg.session
        /\ Len(lastSend.entries) = Len(lastMsg.msg.toolCall)
        /\ \A i \in 1..Len(lastMsg.msg.toolCall):
             /\ lastSend.entries[i].id = lastMsg.msg.toolCall[i].id
             /\ lastSend.entries[i].name = lastMsg.msg.toolCall[i].name)

\* C31: when the first attempt to open a session fails, no backoff timer is
\* scheduled and connect() is at once fetching a new credential for its retry.
C31_AuthFailureRefetches ==
  (lastEvent.op = "openFailed" /\ lastEvent.session = 1)
    => (/\ reconnectTimers = {}
        /\ connPc = "fetch"
        /\ globalClientPromise = "pending")

\* C36: the hook's connected flag is true exactly when connectionStatus is
\* 'connected'.
C36_ConnectedIffStatus == connected <=> connectionStatus = "connected"

\* C38: a connect() that calls getOrCreateClient() while a creation is in
\* flight starts no second token fetch, and when the creation succeeds with the
\* mount effect and connect() both waiting, both get the one new client.
C38_SharedCreation ==
  [][/\ (globalClientPromise = "pending" /\ connPc = "idle" /\ connPc' = "fetch")
          => fetches' = fetches
     /\ (/\ globalClientPromise = "pending"
         /\ mountWaiting
         /\ connPc = "fetch"
         /\ globalClientPromise' = "resolved")
          => (/\ Len(clients') = Len(clients) + 1
              /\ globalClient' = Len(clients')
              /\ client' = globalClient'
              /\ connPc' = "open" => activeClient' = globalClient'
              /\ fetches' = fetches)]_vars

C38_Witness ==
  /\ connPc = "open"
  /\ connCaptured = 0
  /\ ~connFromTimer
  /\ fetches = 1
  /\ Len(clients) = 1
  /\ client = 1
  /\ activeClient = 1
  /\ globalClient = 1

-----------------------------------------------------------------------------
(* Claims about the AudioRecorder *)

\* The executors of start() that have not ended.
RunningExecutors == {e \in 1..Len(executors): executors[e] \in Running}

\* C26: at most one getUserMedia() request is outstanding and at most one
\* start() is running, and the start() calls that joined a running start
\* settle as it does.
C26_SingleFlightStart ==
  /\ deviceRequests <= 1
  /\ Cardinality(RunningExecutors) <= 1
  /\ lastSettle.joined > 0 => lastSettle.joinedOutcome = lastSettle.outcome

\* C26, its case: a start() joined a running start(), which has settled after
\* one request of the microphone.
C26_Witness ==
  /\ lastSettle.joined > 0
  /\ Len(executors) = 1
  /\ recStarts >= 2

\* C27: when a start() during which stop() was called has settled, the
\* recorder is not recording and holds no stream or node, and the tracks of
\* the stream granted to that start() are stopped.
C27_StopDuringStartReleases ==
  lastSettle.stopRequested
    => (/\ ~recording
        /\ stream = 0
        /\ ~source
        /\ ~recordingWorklet
        /\ lastSettle.id \notin liveTracks)

\* C27, its case: stop() was called while a start() was running, that start()
\* has resolved and the chained handleStop has run.
C27_Witness ==
  /\ lastSettle.stopRequested
  /\ lastSettle.outcome = "resolved"
  /\ ~recording

\* C34: once every start() has settled, all of them resolved, the recorder is
\* recording exactly if the method called last was start().
C34_LastCallWins ==
  (/\ starting = 0
   /\ lastCall # "none"
   /\ \A e \in 1..Len(executors): executors[e] = "resolved")
    => (recording <=> lastCall = "start")

\* C35: an executor of start() that has ended has settled its promise, and
\* this.starting no longer holds that promise.
C35_StartAlwaysSettles ==
  \A e \in 1..Len(executors):
    executors[e] \notin Running
      => (executors[e] \in {"resolved", "rejected"} /\ starting # e)

----------------------------------------------------------------------------
(* Claims about the AudioStreamer *)

\* The operations that ran scheduleNextBuffer().
Ticks == {"pushTick", "pollTick", "timerTick"}

\* C3: after stop(), no source of a frame pushed before it is audible at any
\* later time.
C3_NoStaleAudioAfterInterrupt == ~heardStale

\* C4: after stop() and a later addPCM16(f), every source created for f that has
\* not finished playing is routed through a connected gain node with gain 1.
C4_NewFrameStaysConnected ==
  \A i \in 1..Len(units):
    (stops >= 1 /\ units[i].epoch = stops /\ now < SourceEnd(units[i]))
      => (nodes[units[i].node].connected /\ nodes[units[i].node].gain = 1)

\* C5: the addPCM16 that follows a stop() starts its first source at the clock
\* time of that call plus initialBufferTime.
C5_FreshAnchorAfterInterrupt ==
  [][(isInterrupted /\ pushes' = pushes + 1)
       => (/\ Len(units') > Len(units)
           /\ units'[Len(units) + 1].start = now + InitialBufferTime)]_vars

C5_Witness ==
  /\ last = "pushTick"
  /\ stops >= 1
  /\ Len(units) >= 2
  /\ units[Len(units)].epoch = stops
  /\ \E i \in 1..Len(units): units[i].epoch < stops /\ units[i].end > now

\* C6: with no stop() in between, each source starts at or after the end of the
\* source scheduled before it.
C6_NoOverlap ==
  \A i \in 2..Len(units):
    units[i].epoch = units[i-1].epoch => units[i].start >= units[i-1].end

C6_Witness ==
  /\ Len(units) >= 3
  /\ \A i \in 2..Len(units): units[i].epoch = units[i-1].epoch
  /\ \E i \in 2..Len(units): units[i].start > units[i-1].end

\* C7: whenever the queue is not empty, a call of scheduleNextBuffer is pending:
\* the poll is armed or a reschedule timer is set.
C7_TickPendingWhileQueued ==
  Len(audioQueue) > 0 => (checkInterval # NoTimer \/ timers # EmptyBag)

\* C8: sources are created in push order and in sample order within a frame,
\* none twice.
C8_PlayedInOrder ==
  /\ Len(units) >= 1 => units[1].off = 0
  /\ \A i \in 2..Len(units):
       \/ /\ units[i].frame = units[i-1].frame
          /\ units[i].off = units[i-1].off + units[i-1].len
       \/ /\ units[i].frame > units[i-1].frame
          /\ units[i].off = 0

C8_Witness ==
  /\ \E i \in 1..Len(units): units[i].off > 0
  /\ \E i, j \in 1..Len(units): units[i].frame < units[j].frame

\* Three frames of one 320 ms buffer each have been pushed, none later than the
\* first one starts playing, and nothing interrupted them.
ThreeFrames320 ==
  /\ pushes = 3
  /\ stops = 0
  /\ Len(units) >= 1
  /\ Len(units) + Len(audioQueue) = 3
  /\ \A i \in 1..Len(units):
       units[i].len = BufferSize /\ units[i].at <= units[1].start
  /\ \A i \in 1..Len(audioQueue):
       audioQueue[i].len = BufferSize /\ audioQueue[i].at <= units[1].start

\* C9: three 320 ms frames pushed without interruption are all scheduled, back
\* to back, once no timer is left to run.
C9_ThreeFramesContiguous ==
  (ThreeFrames320 /\ Dues = {})
    => (/\ Len(units) = 3
        /\ \A i \in 1..2: units[i+1].start = units[i].start + Duration(units[i].len))

\* C10: right after scheduleNextBuffer() has run, scheduledTime is at most
\* maxDrift ahead of the clock.
C10_DriftBounded == last \in Ticks => scheduledTime - now <= maxDrift

C10_Witness == last \in Ticks /\ scheduledTime - now > SCHEDULE_AHEAD_TIME

\* C28: a chunk of odd byte length is rejected whole: none of its samples is
\* queued or played.
C28_OddLengthRejected ==
  \A f \in oddFrames:
    /\ \A i \in 1..Len(audioQueue): audioQueue[i].frame # f
    /\ \A i \in 1..Len(units): units[i].frame # f

\* C30: right after stop() the queue is empty, the streamer is interrupted and
\* every source that was scheduled to start later has been stopped.
C30_InterruptCancelsScheduled ==
  last = "stop"
    => (/\ audioQueue = <<>>
        /\ isInterrupted
        /\ \A i \in 1..Len(units):
             units[i].start > now => units[i].stopAt # NoTimer)

\* The sub-chunks that were turned into sources or are waiting in the queue.
SubChunks ==
  [i \in 1..Len(units) |-> <<units[i].frame, units[i].off>>]
    \o [i \in 1..Len(audioQueue) |-> <<audioQueue[i].frame, audioQueue[i].off>>]

\* C32: between two callbacks the scheduling flag is clear, and no sub-chunk
\* was turned into a source twice or turned into a source and left queued.
C32_TickNotReentrant ==
  /\ ~isScheduling
  /\ LET sc == SubChunks
     IN \A i \in 1..Len(sc): \A j \in (i + 1)..Len(sc): sc[i] # sc[j]

C32_Witness ==
  /\ last = "timerTick"
  /\ Len(units) >= 3
  /\ Len(audioQueue) > 0
  /\ pushes >= 2

\* C33: a chunk that onAudio hands to addPCM16 belongs to an event delivered
\* after the latest stop(): no chunk delivered before an interrupt is queued
\* after it.
C33_NoStaleFrameAfterInterrupt == lastPush.bytes # 0 => lastPush.epoch = stops

\* The sub-chunks of frame f, those turned into sources first and then those
\* still queued.
FrameChunks(f) ==
  SelectSeq([i \in 1..Len(units) |-> [frame |-> units[i].frame, off |-> units[i].off,
                                      len |-> units[i].len]]
              \o [i \in 1..Len(audioQueue) |->
                    [frame |-> audioQueue[i].frame, off |-> audioQueue[i].off,
                     len |-> audioQueue[i].len]],
            LAMBDA c: c.frame = f)

\* C37: right after addPCM16 the sub-chunks of its frame are consecutive, of at
\* most 7680 samples, all but the last of exactly 7680, and together they are
\* the decoded samples of the chunk.
C37_SlicesCoverFrame ==
  last \in {"push", "pushTick"}
    => LET c == FrameChunks(pushes)
           decoded == ProcessPCM16Chunk(lastChunk)
       IN /\ \A i \in 1..Len(c):
               /\ c[i].off = (i - 1) * BufferSize
               /\ c[i].len > 0
               /\ c[i].len <= BufferSize
               /\ i < Len(c) => c[i].len = BufferSize
          /\ IF Len(c) = 0 THEN decoded = 0
             ELSE c[Len(c)].off + c[Len(c)].len = decoded

C37_Witness ==
  /\ last = "push"
  /\ Len(FrameChunks(pushes)) = 2
  /\ FrameChunks(pushes)[2].len = 1920

----------------------------------------------------------------------------
(* Claims about the AudioProcessingWorklet *)

\* C39: between two process() calls the write index is below 2048, and a
\* chunk that is posted holds exactly 2048 output samples, each made of
\* captured samples, which follow on from the chunk before and from one
\* another without a gap or a repetition.
C39_FramesInCaptureOrder ==
  /\ wkPc = "idle" => bufferWriteIndex < FrameLength
  /\ lastFrame # NoFrame
       => LET f == lastFrame.samples
          IN /\ Len(f) = FrameLength
             /\ \A i \in 1..Len(f): f[i].count >= 1
             /\ f[1].first = lastFrame.after + 1
             /\ \A i \in 1..(Len(f) - 1): f[i + 1].first = f[i].first + f[i].count

\* C40: every iteration of the while loop of processChunk takes at least one
\* sample out of resampleBuffer.
C40_LoopConsumes ==
  [][(wkPc = "loop" /\ wkPc' = "loop") => Len(resampleBuffer') < Len(resampleBuffer)]_vars

====
